---- MODULE Spec2Model ----
(***************************************************************************)
(* Model of src/app.py: the telemetry parser (parse_measurement_file), the *)
(* measured-series assembler (SunnyPortalDataFetcher.fetch_data), the PV   *)
(* simulation (simulate_pv_production), EconomicAnalyzer and the /results  *)
(* request handler.                                                        *)
(*                                                                         *)
(* Text is a sequence of one-character strings.  A datetime is a record    *)
(* [date |-> proleptic ordinal day, secs |-> second of the day].  A float  *)
(* is an exact decimal [nan, m, e] standing for m / 10^e (binary rounding  *)
(* is not modelled); nan = TRUE is numpy's NaN.  A DataFrame is a record   *)
(* [none, columns, rows]: its column names and the sequence of its rows;   *)
(* the frame without columns, pd.DataFrame(), is NoFrame.  SpecParse runs  *)
(* the parser alone, line by line; Spec runs the /results handler.         *)
(***************************************************************************)
EXTENDS Integers, Sequences, FiniteSets, TLC

\* ------------------------------------------------------------------ bounds
MaxLines == 2
MaxChannelLines == 1
MaxNasaRows == 1

\* ------------------------------------------------------- program constants
LICZBA_MODULI == 27
\* datetime.max.toordinal(): a date past it raises OverflowError
MaxOrdinal == 3652059
\* 2025-01-06 as an ordinal day, the first day of the modelled windows
D0 == 739257

\* -------------------------------------------------------------------- text
Digits == <<"0", "1", "2", "3", "4", "5", "6", "7", "8", "9">>

IsDigit(c) == \E i \in 1..10 : Digits[i] = c

DigitVal(c) == (CHOOSE i \in 1..10 : Digits[i] = c) - 1

IsSpace(c) == c = " "

RECURSIVE LStrip(_)
LStrip(s) == IF s # <<>> /\ IsSpace(Head(s)) THEN LStrip(Tail(s)) ELSE s

RECURSIVE RStrip(_)
RStrip(s) ==
    IF s # <<>> /\ IsSpace(s[Len(s)]) THEN RStrip(SubSeq(s, 1, Len(s) - 1)) ELSE s

\* str.strip()
Strip(s) == RStrip(LStrip(s))

\* str.split(sep): the fields between the separators, empty fields included
RECURSIVE SplitOn(_, _, _)
SplitOn(s, sep, cur) ==
    IF s = <<>> THEN <<cur>>
    ELSE IF Head(s) = sep THEN <<cur>> \o SplitOn(Tail(s), sep, <<>>)
    ELSE SplitOn(Tail(s), sep, Append(cur, Head(s)))

Split(s, sep) == SplitOn(s, sep, <<>>)

\* str.split(): the maximal runs of non-blank characters
RECURSIVE SplitWS(_, _)
SplitWS(s, cur) ==
    IF s = <<>> THEN (IF cur = <<>> THEN <<>> ELSE <<cur>>)
    ELSE IF IsSpace(Head(s))
         THEN (IF cur = <<>> THEN <<>> ELSE <<cur>>) \o SplitWS(Tail(s), <<>>)
         ELSE SplitWS(Tail(s), Append(cur, Head(s)))

Tokens(s) == SplitWS(s, <<>>)

\* str.replace(a, b) for one-character a; b is a text, <<>> removes a
RECURSIVE Replace(_, _, _)
Replace(s, a, b) ==
    IF s = <<>> THEN <<>>
    ELSE (IF Head(s) = a THEN b ELSE <<Head(s)>>) \o Replace(Tail(s), a, b)

AllDigits(s) == s # <<>> /\ \A i \in 1..Len(s) : IsDigit(s[i])

RECURSIVE DigitsVal(_)
DigitsVal(s) ==
    IF s = <<>> THEN 0
    ELSE 10 * DigitsVal(SubSeq(s, 1, Len(s) - 1)) + DigitVal(s[Len(s)])

\* int(s) over the modelled alphabet: an optional sign and decimal digits
ParseInt(s) ==
    LET neg  == s # <<>> /\ Head(s) = "-"
        body == IF neg THEN Tail(s) ELSE s
    IN  IF AllDigits(body)
        THEN [ok |-> TRUE, val |-> IF neg THEN 0 - DigitsVal(body) ELSE DigitsVal(body)]
        ELSE [ok |-> FALSE, val |-> 0]

\* datetime.strptime(s, "%H:%M").time(): one or two digits each, H < 24, M < 60
StrpTime(s) ==
    LET parts == Split(s, ":")
        good  == /\ Len(parts) = 2
                 /\ AllDigits(parts[1]) /\ Len(parts[1]) <= 2
                 /\ AllDigits(parts[2]) /\ Len(parts[2]) <= 2
                 /\ DigitsVal(parts[1]) < 24
                 /\ DigitsVal(parts[2]) < 60
    IN  IF good
        THEN [ok |-> TRUE, hour |-> DigitsVal(parts[1]), minute |-> DigitsVal(parts[2])]
        ELSE [ok |-> FALSE, hour |-> 0, minute |-> 0]

\* ------------------------------------------------------------------ floats
NaN == [nan |-> TRUE, m |-> 0, e |-> 0]

\* m / 10^e in lowest terms, so that equal numbers are equal records
RECURSIVE Normal(_, _)
Normal(m, e) ==
    IF e > 0 /\ m % 10 = 0 THEN Normal(m \div 10, e - 1)
    ELSE [nan |-> FALSE, m |-> m, e |-> e]

Dec(m, e) == Normal(m, e)

\* float(s) over the modelled alphabet: [-] digits [. digits] or [-] . digits
ParseFloat(s) ==
    LET neg   == s # <<>> /\ Head(s) = "-"
        body  == IF neg THEN Tail(s) ELSE s
        parts == Split(body, ".")
        ip    == parts[1]
        fp    == IF Len(parts) = 2 THEN parts[2] ELSE <<>>
        good  == /\ Len(parts) <= 2
                 /\ ip \o fp # <<>>
                 /\ \A i \in 1..Len(ip \o fp) : IsDigit((ip \o fp)[i])
        mag   == DigitsVal(ip \o fp)
    IN  IF good
        THEN [ok |-> TRUE, val |-> Dec(IF neg THEN 0 - mag ELSE mag, Len(fp))]
        ELSE [ok |-> FALSE, val |-> NaN]

RECURSIVE Pow10(_)
Pow10(n) == IF n = 0 THEN 1 ELSE 10 * Pow10(n - 1)

\* x * (m / 10^e); NaN propagates
DecScale(x, m, e) == IF x.nan THEN NaN ELSE Dec(x.m * m, x.e + e)

DecAdd(x, y) ==
    IF x.nan \/ y.nan THEN NaN
    ELSE LET e == IF x.e >= y.e THEN x.e ELSE y.e
         IN  Dec(x.m * Pow10(e - x.e) + y.m * Pow10(e - y.e), e)

DecSub(x, y) == DecAdd(x, DecScale(y, -1, 0))

DecMul(x, y) == IF x.nan \/ y.nan THEN NaN ELSE Dec(x.m * y.m, x.e + y.e)

\* x >= 0, x < 0: comparisons with NaN are False
DecGE0(x) == ~x.nan /\ x.m >= 0

DecLT0(x) == ~x.nan /\ x.m < 0

\* --------------------------------------------------------------- datetimes
DateTime(d, h, mi, s) == [date |-> d, secs |-> h * 3600 + mi * 60 + s]

TsLE(a, b) == a.date < b.date \/ (a.date = b.date /\ a.secs <= b.secs)

\* the rollover policy instead, for a base date in January 2025: the day token
\* is a day of the base month, or of the next month when below the base day
ResolveDateRollover(base_date, day_num) ==
    LET jan1 == D0 - 5
        base_day == base_date - jan1 + 1
    IN  IF day_num < base_day THEN jan1 + 31 + (day_num - 1)
        ELSE jan1 + (day_num - 1)

\* base_date + timedelta(days=day_num - 1), as an ordinal day
ResolveDate(base_date, day_num) == base_date + (day_num - 1)

\* a date datetime can hold: ordinals 1 (0001-01-01) to MaxOrdinal (9999-12-31)
Representable(d) == d >= 1 /\ d <= MaxOrdinal

\* ---------------------------------------------------- parse_measurement_file
\* The value of the second field of a line (parts = line.split(";"))
ParseValue(parts) ==
    IF Len(parts) > 1
    THEN LET val_str == Strip(parts[2])
             unq     == IF /\ val_str # <<>>
                           /\ Head(val_str) = "\""
                           /\ val_str[Len(val_str)] = "\""
                        THEN SubSeq(val_str, 2, Len(val_str) - 1)
                        ELSE val_str
             dotted  == Replace(unq, ",", <<".">>)
         IN  IF val_str = <<>> THEN NaN
             ELSE IF dotted = <<>> THEN NaN
             ELSE ParseFloat(dotted).val
    ELSE NaN

\* The day number of the day token: int(day_str), 1 when int() raises
DayNum(day_str) ==
    LET r == ParseInt(day_str) IN IF r.ok THEN r.val ELSE 1

\* One iteration of the loop over the lines: "skip" (continue), "row"
\* (data.append) or "raise" (an exception that leaves the loop)
ParseLine(raw, base_date) ==
    LET line   == Strip(raw)
        parts  == Split(line, ";")
        tokens == Tokens(Strip(parts[1]))
        time0  == Strip(tokens[1])
        day_str == Replace(Strip(tokens[2]), ".", <<>>)
        day_num == DayNum(day_str)
        time_str == IF time0 # <<>> /\ time0[Len(time0)] = "."
                    THEN SubSeq(time0, 1, Len(time0) - 1) ELSE time0
        time_obj == StrpTime(time_str)
        d == ResolveDate(base_date, day_num)
        none == [timestamp |-> DateTime(0, 0, 0, 0), value |-> NaN]
    IN  IF line = <<>> THEN [kind |-> "skip", row |-> none]
        ELSE IF Len(tokens) < 2 THEN [kind |-> "skip", row |-> none]
        ELSE IF ~time_obj.ok THEN [kind |-> "skip", row |-> none]
        ELSE IF ~Representable(d) THEN [kind |-> "raise", row |-> none]
        ELSE [kind |-> "row",
              row |-> [timestamp |-> DateTime(d, time_obj.hour, time_obj.minute, 0),
                       value |-> ParseValue(parts)]]

\* ------------------------------------------------------------ sample lines
\* The lines the files are made of, as they stand in a telemetry file.
\* 08:15. 1.;"2,5"   (a quoted value with a decimal comma, day 1)
LineQuoted == <<"0", "8", ":", "1", "5", ".", " ", "1", ".", ";", "\"", "2", ",", "5", "\"">>

\*  12:00 2;100    (no periods, no quotes, blanks around, day 2)
LinePlain == <<" ", "1", "2", ":", "0", "0", " ", "2", ";", "1", "0", "0", " ">>

\*      (only blanks)
LineBlank == <<" ", " ">>

\* 08:30.;3   (the first field has a time token and no day token)
LineNoDay == <<"0", "8", ":", "3", "0", ".", ";", "3">>

\* 25:00. 1.;7   (the time token is no HH:MM time)
LineBadTime == <<"2", "5", ":", "0", "0", ".", " ", "1", ".", ";", "7">>

\* 09:30. x.;7   (the day token is no integer)
LineBadDay == <<"0", "9", ":", "3", "0", ".", " ", "x", ".", ";", "7">>

\* 09:45. 9999999.;7   (the day token leads past datetime.max)
LineHugeDay == <<"0", "9", ":", "4", "5", ".", " ", "9", "9", "9", "9", "9", "9", "9", ".", ";", "7">>

\* 10:00. 1.;   (an empty value field)
LineNoValue == <<"1", "0", ":", "0", "0", ".", " ", "1", ".", ";">>

\* 08:15. 1.;   (an empty value field at the time of LineQuoted)
LineEmptyValue == <<"0", "8", ":", "1", "5", ".", " ", "1", ".", ";">>

\* 10:15. 3.;"x"   (an unparseable value field)
LineBadValue == <<"1", "0", ":", "1", "5", ".", " ", "3", ".", ";", "\"", "x", "\"">>

\* 08:15. 1.;-4   (a negative value at the time of LineQuoted)
LineNegative == <<"0", "8", ":", "1", "5", ".", " ", "1", ".", ";", "-", "4">>

\* 11:15. 9.;5   (day 9, after every modelled window)
LineLate == <<"1", "1", ":", "1", "5", ".", " ", "9", ".", ";", "5">>

\* 11:30. 0.;5   (day 0, the day before the base date)
LineEarly == <<"1", "1", ":", "3", "0", ".", " ", "0", ".", ";", "5">>


\* What each sample line says, read by eye: its form ("valid": a time token
\* HH:MM and an integer day token of a representable date; "blank";
\* "malformed"), and for a valid line the time, the day token and the value.
Sample(text, form, hour, minute, day, value) ==
    [text |-> text, form |-> form, hour |-> hour, minute |-> minute,
     day |-> day, value |-> value]

SQuoted == Sample(LineQuoted, "valid", 8, 15, 1, Dec(25, 1))

SPlain == Sample(LinePlain, "valid", 12, 0, 2, Dec(100, 0))

SBlank == Sample(LineBlank, "blank", 0, 0, 0, NaN)

SNoDay == Sample(LineNoDay, "malformed", 0, 0, 0, NaN)

SBadTime == Sample(LineBadTime, "malformed", 0, 0, 0, NaN)

SBadDay == Sample(LineBadDay, "malformed", 0, 0, 0, NaN)

SHugeDay == Sample(LineHugeDay, "malformed", 0, 0, 0, NaN)

SNoValue == Sample(LineNoValue, "valid", 10, 0, 1, NaN)

SEmptyValue == Sample(LineEmptyValue, "valid", 8, 15, 1, NaN)

SBadValue == Sample(LineBadValue, "valid", 10, 15, 3, NaN)

SNegative == Sample(LineNegative, "valid", 8, 15, 1, Dec(-4, 0))

SLate == Sample(LineLate, "valid", 11, 15, 9, Dec(5, 0))

SEarly == Sample(LineEarly, "valid", 11, 30, 0, Dec(5, 0))

\* the sample lines by name: a file is a sequence of these names
Lines ==
    ("Quoted" :> SQuoted)
    @@ ("Plain" :> SPlain)
    @@ ("Blank" :> SBlank)
    @@ ("NoDay" :> SNoDay)
    @@ ("BadTime" :> SBadTime)
    @@ ("BadDay" :> SBadDay)
    @@ ("HugeDay" :> SHugeDay)
    @@ ("NoValue" :> SNoValue)
    @@ ("EmptyValue" :> SEmptyValue)
    @@ ("BadValue" :> SBadValue)
    @@ ("Negative" :> SNegative)
    @@ ("Late" :> SLate)
    @@ ("Early" :> SEarly)

\* the lines of the files given to the parser alone
ParserLines ==
    {"Quoted", "Plain", "Blank", "NoDay", "BadTime", "BadDay", "HugeDay", "NoValue",
     "BadValue", "Early"}

SeqsUpTo(S, n) == UNION {[1..k -> S] : k \in 0..n}

\* A file of the file system: absent, or its lines
File(exists, lines) == [exists |-> exists, lines |-> lines]

Missing == File(FALSE, <<>>)

ParserFiles == {Missing} \cup {File(TRUE, l) : l \in SeqsUpTo(ParserLines, MaxLines)}

\* 2025-01-06 and 2025-01-31
BaseDates == {D0, D0 + 25}

\* -------------------------------------------------------------- DataFrames
\* pd.DataFrame(data) of a list of row dicts: no rows, no columns
DataFrame(rows, columns) ==
    [none |-> FALSE, columns |-> IF rows = <<>> THEN {} ELSE columns, rows |-> rows]

\* pd.DataFrame()
NoFrame == [none |-> FALSE, columns |-> {}, rows |-> <<>>]

\* Python's None where a DataFrame may stand
None == [none |-> TRUE, columns |-> {}, rows |-> <<>>]

\* df.empty
Empty(df) == df.rows = <<>> \/ df.columns = {}

\* The rows the loop of parse_measurement_file has appended after the lines
\* from index i on, each with the index of its line; an exception ends the loop
RECURSIVE ParseFrom(_, _, _)
ParseFrom(lines, i, base_date) ==
    IF i > Len(lines) THEN <<>>
    ELSE LET r == ParseLine(Lines[lines[i]].text, base_date)
         IN  IF r.kind = "raise" THEN <<>>
             ELSE (IF r.kind = "row"
                   THEN <<[timestamp |-> r.row.timestamp, value |-> r.row.value,
                           line |-> i]>>
                   ELSE <<>>) \o ParseFrom(lines, i + 1, base_date)

Unline(data) ==
    [i \in 1..Len(data) |-> [timestamp |-> data[i].timestamp, value |-> data[i].value]]

\* parse_measurement_file(file_path, base_date, measurement_col)
parse_measurement_file(f, base_date, measurement_col) ==
    IF ~f.exists THEN DataFrame(<<>>, {"timestamp", measurement_col})
    ELSE DataFrame(Unline(ParseFrom(f.lines, 1, base_date)),
                   {"timestamp", measurement_col})

\* ------------------------------------- SunnyPortalDataFetcher.fetch_data
\* pd.merge(left, right, on="timestamp", how="inner"): for each left row, in
\* order, one pair per right row of the same timestamp
RECURSIVE MergePairs(_, _)
MergePairs(left, right) ==
    IF left = <<>> THEN <<>>
    ELSE LET l  == Head(left)
             rs == SelectSeq(right, LAMBDA r : r.timestamp = l.timestamp)
         IN  [i \in 1..Len(rs) |-> <<l, rs[i]>>] \o MergePairs(Tail(left), right)

PowerVoltage(l, r) ==
    [timestamp |-> l.timestamp, power |-> l.value, grid_voltage |-> r.value]

PowerVoltageCurrent(l, r) ==
    [timestamp |-> l.timestamp, power |-> l.power,
     grid_voltage |-> l.grid_voltage, grid_current |-> r.value]

\* the filter without its upper bound
InWindowFromStart(rows, start_date, end_date) ==
    SelectSeq(rows, LAMBDA r : TsLE(start_date, r.timestamp))

\* df_merged[(timestamp >= start_date) & (timestamp <= end_date)]
InWindow(rows, start_date, end_date) ==
    SelectSeq(rows, LAMBDA r : TsLE(start_date, r.timestamp) /\ TsLE(r.timestamp, end_date))

\* (power * 0.25) / 1000.0
ProductionKWh(power) == DecScale(power, 25, 5)

MergedColumns ==
    {"timestamp", "power", "grid_voltage", "grid_current", "production_kWh",
     "grid_power_calculated"}

\* fetch_data once the three files are parsed
Assemble(df_power, df_voltage, df_current, start_date, end_date) ==
    IF Empty(df_power) \/ Empty(df_voltage) \/ Empty(df_current) THEN NoFrame
    ELSE LET p1 == MergePairs(df_power.rows, df_voltage.rows)
             m1 == [i \in 1..Len(p1) |-> PowerVoltage(p1[i][1], p1[i][2])]
             p2 == MergePairs(m1, df_current.rows)
             m2 == [i \in 1..Len(p2) |-> PowerVoltageCurrent(p2[i][1], p2[i][2])]
             w  == InWindow(m2, start_date, end_date)
         IN  [none |-> FALSE, columns |-> MergedColumns,
              rows |-> [i \in 1..Len(w) |->
                  [timestamp |-> w[i].timestamp,
                   power |-> w[i].power,
                   grid_voltage |-> w[i].grid_voltage,
                   grid_current |-> w[i].grid_current,
                   production_kWh |-> ProductionKWh(w[i].power),
                   grid_power_calculated |->
                       DecMul(w[i].grid_voltage, w[i].grid_current)]]]

\* the three parses of fetch_data; base_date is the date of start_date
ParseChannels(files, start_date) ==
    [power   |-> parse_measurement_file(files.power, start_date.date, "power"),
     voltage |-> parse_measurement_file(files.voltage, start_date.date, "grid_voltage"),
     current |-> parse_measurement_file(files.current, start_date.date, "grid_current")]

fetch_data(files, start_date, end_date) ==
    LET df == ParseChannels(files, start_date)
    IN  Assemble(df.power, df.voltage, df.current, start_date, end_date)

\* ---------------------------------------------------- simulate_pv_production
MODULE_AREA == Dec(16, 1)

MODULE_EFFICIENCY == Dec(149, 3)

PERFORMANCE_RATIO == Dec(8, 1)

\* no clamp
ClampIrradianceOmitted(irradiance) == irradiance

\* nasa_df.loc[nasa_df["irradiance"] < 0, "irradiance"] = 0
ClampIrradiance(irradiance) == IF DecLT0(irradiance) THEN Dec(0, 0) ELSE irradiance

\* irradiance * MODULE_AREA * MODULE_EFFICIENCY * PERFORMANCE_RATIO * 1.0 / 1000.0
ProductionPerModule(irradiance) ==
    DecScale(DecMul(DecMul(DecMul(irradiance, MODULE_AREA), MODULE_EFFICIENCY),
                    PERFORMANCE_RATIO), 1, 3)

\* the frame nasa_df after simulate_pv_production(nasa_df), which works in place
simulate_pv_production(nasa_df) ==
    [none |-> FALSE,
     columns |-> nasa_df.columns \cup {"production_per_module", "total_production"},
     rows |-> [i \in 1..Len(nasa_df.rows) |->
        LET irr == ClampIrradiance(nasa_df.rows[i].irradiance)
        IN  [timestamp |-> nasa_df.rows[i].timestamp,
             irradiance |-> irr,
             production_per_module |-> ProductionPerModule(irr),
             total_production |->
                 DecScale(ProductionPerModule(irr), LICZBA_MODULI, 0)]]]

\* Series.sum(): NaN is skipped, the sum of nothing is 0
RECURSIVE SumOf(_)
SumOf(values) ==
    IF values = <<>> THEN Dec(0, 0)
    ELSE IF Head(values).nan THEN SumOf(Tail(values))
    ELSE DecAdd(Head(values), SumOf(Tail(values)))

\* ------------------------------------------------------------ EconomicAnalyzer
\* the month of an ordinal day between 2025-01-01 and 2025-02-28
Month(d) == IF d <= D0 + 25 THEN 1 ELSE 2

\* __init__ raises KeyError when data has no column "timestamp"
AnalyzerRaises(df) == "timestamp" \notin df.columns

\* self.data after __init__(data): a copy of data with the columns hour and month
AnalyzerInit(df) ==
    [none |-> FALSE,
     columns |-> df.columns \cup {"hour", "month"},
     rows |-> [i \in 1..Len(df.rows) |->
        df.rows[i] @@ [hour |-> df.rows[i].timestamp.secs \div 3600,
                       month |-> Month(df.rows[i].timestamp.date)]]]

cost_peak == Dec(80, 2)

feed_in_rate == Dec(50, 2)

grid_usage_rate == Dec(40, 2)

EconomicColumns ==
    {"savings_autoconsumption", "revenue_feed_in", "cost_buy_energy", "net_feed_in"}

\* the economic columns of one record, from the energy the analyzer reads
EconomicRecord(energy) ==
    [savings_autoconsumption |-> DecMul(energy, cost_peak),
     revenue_feed_in |-> DecMul(energy, feed_in_rate),
     cost_buy_energy |-> DecMul(energy, grid_usage_rate),
     net_feed_in |-> DecSub(DecMul(energy, feed_in_rate),
                            DecMul(energy, grid_usage_rate))]

\* self.data after calculate_economics
calculate_economics(df) ==
    [none |-> FALSE,
     columns |-> df.columns \cup EconomicColumns,
     rows |-> [i \in 1..Len(df.rows) |->
        df.rows[i] @@ EconomicRecord(df.rows[i].production_kWh)]]

\* (total_savings_auto, total_net_feed_in)
EconomicTotals(df) ==
    [total_auto |->
        SumOf([i \in 1..Len(df.rows) |-> df.rows[i].savings_autoconsumption]),
     total_feed_in |->
        SumOf([i \in 1..Len(df.rows) |-> df.rows[i].net_feed_in])]

\* -------------------------------------------------------------- the inputs
\* request.form: each date string as strptime(..., "%Y-%m-%d") reads it
Parsed(d) == [ok |-> TRUE, date |-> d]

Unparsed == [ok |-> FALSE, date |-> 0]

\* windows of 6, 7 and 8 days from 2025-01-06, and the unparseable forms
Forms ==
    {[start |-> Parsed(D0), end |-> Parsed(D0 + k)] : k \in 5..7}
    \cup {[start |-> Unparsed, end |-> Parsed(D0 + 6)],
          [start |-> Parsed(D0), end |-> Unparsed]}

PowerLines == {"Quoted", "EmptyValue", "Negative", "Late"}

AuxLines == {"Quoted", "Late"}

PowerFiles == {Missing} \cup {File(TRUE, l) : l \in SeqsUpTo(PowerLines, MaxChannelLines)}

AuxFiles == {Missing} \cup {File(TRUE, l) : l \in SeqsUpTo(AuxLines, MaxChannelLines)}

\* the directory data/: the three files of the window
Disks == [power : PowerFiles, voltage : AuxFiles, current : AuxFiles]

\* W/m2 of the provider's answer; -999 is its fill value
IrrValues == {Dec(-999, 0), Dec(500, 0)}

\* the frame fetch_nasa_data builds from the answer: one row per hour
NasaFrame(start_date, irr) ==
    [none |-> FALSE, columns |-> {"timestamp", "irradiance"},
     rows |-> [i \in 1..Len(irr) |->
        [timestamp |-> DateTime(start_date.date, i - 1, 0, 0), irradiance |-> irr[i]]]]

\* what fetch_nasa_data returns: None, or the frame of the answer
NasaOutcomes(start_date) ==
    {None} \cup {NasaFrame(start_date, irr) : irr \in SeqsUpTo(IrrValues, MaxNasaRows)}

NoValue == [none |-> TRUE, val |-> Dec(0, 0)]

Some(x) == [none |-> FALSE, val |-> x]

\* ------------------------------------------------------------------- state
VARIABLES
    file,        \* parser: the file at file_path
    base_date,   \* parser: its base_date argument
    ppc,         \* parser: "call", "loop", "except" or "returned"
    pos,         \* parser: the index of the next line of the loop
    data,        \* parser: the list data, each row with the index of its line
    parsed,      \* parser: the DataFrame returned
    form,        \* results: the posted form
    disk,        \* results: the files of data/
    pc,          \* results: where the handler stands
    start_date,  \* results: start_date
    end_date,    \* results: end_date
    df,          \* fetch_data: df_power, df_voltage, df_current
    heap,        \* the DataFrame objects: sunny_data, nasa_data, the copy given
                 \* to simulate_pv_production, analyzer.data
    spec_sim_df, \* results: the object spec_sim_df names
    total_spec_production,
    totals,      \* results: total_auto, total_feed_in
    opened,      \* the channel files opened during this request
    nasa_calls,  \* the calls of fetch_nasa_data during this request
    returned,    \* the frames as fetch_data and fetch_nasa_data returned them
    prev         \* the outcome of the previous request, and whether it simulated

pvars == <<file, base_date, ppc, pos, data, parsed>>

rvars == <<form, disk, pc, start_date, end_date, df, heap, spec_sim_df,
           total_spec_production, totals, opened, nasa_calls, returned, prev>>

vars == <<pvars, rvars>>

NoHeap == [sunny |-> None, nasa |-> None, spec |-> None, analyzer |-> None]

NoTotals == [total_auto |-> Dec(0, 0), total_feed_in |-> Dec(0, 0)]

NoPrev ==
    [set |-> FALSE, status |-> "none", totals |-> NoTotals, economics |-> <<>>,
     simulated |-> FALSE]

ParserIdle ==
    /\ file = Missing
    /\ base_date = D0
    /\ ppc = "idle"
    /\ pos = 0
    /\ data = <<>>
    /\ parsed = NoFrame

ResultsIdle(p) ==
    /\ pc = p
    /\ start_date = DateTime(0, 0, 0, 0)
    /\ end_date = DateTime(0, 0, 0, 0)
    /\ df = [power |-> NoFrame, voltage |-> NoFrame, current |-> NoFrame]
    /\ heap = NoHeap
    /\ spec_sim_df = "unset"
    /\ total_spec_production = NoValue
    /\ totals = NoTotals
    /\ opened = {}
    /\ nasa_calls = 0
    /\ returned = [sunny |-> None, nasa |-> None]
    /\ prev = NoPrev

\* ------------------------------------------- parse_measurement_file, stepwise
ParseInit ==
    /\ file \in ParserFiles
    /\ base_date \in BaseDates
    /\ ppc = "call"
    /\ pos = 0
    /\ data = <<>>
    /\ parsed = NoFrame
    /\ form = [start |-> Unparsed, end |-> Unparsed]
    /\ disk = [power |-> Missing, voltage |-> Missing, current |-> Missing]
    /\ ResultsIdle("idle")

\* open(file_path): the loop starts
OpenFile ==
    /\ ppc = "call"
    /\ file.exists
    /\ ppc' = "loop"
    /\ pos' = 1
    /\ UNCHANGED <<file, base_date, data, parsed, rvars>>

\* open(file_path) raises: the except clause
OpenFails ==
    /\ ppc = "call"
    /\ ~file.exists
    /\ ppc' = "except"
    /\ UNCHANGED <<file, base_date, pos, data, parsed, rvars>>

\* an iteration that ends in continue
SkipLine ==
    /\ ppc = "loop"
    /\ pos <= Len(file.lines)
    /\ ParseLine(Lines[file.lines[pos]].text, base_date).kind = "skip"
    /\ pos' = pos + 1
    /\ UNCHANGED <<file, base_date, ppc, data, parsed, rvars>>

\* an iteration that ends in data.append
AppendRow ==
    /\ ppc = "loop"
    /\ pos <= Len(file.lines)
    /\ LET r == ParseLine(Lines[file.lines[pos]].text, base_date)
       IN  /\ r.kind = "row"
           /\ data' = Append(data, [timestamp |-> r.row.timestamp,
                                    value |-> r.row.value, line |-> pos])
    /\ pos' = pos + 1
    /\ UNCHANGED <<file, base_date, ppc, parsed, rvars>>

\* an iteration that raises: the except clause, the rest of the file unread
LineRaises ==
    /\ ppc = "loop"
    /\ pos <= Len(file.lines)
    /\ ParseLine(Lines[file.lines[pos]].text, base_date).kind = "raise"
    /\ ppc' = "except"
    /\ UNCHANGED <<file, base_date, pos, data, parsed, rvars>>

\* the end of the file, or the end of the except clause: return pd.DataFrame(data)
ParseReturn ==
    /\ \/ ppc = "loop" /\ pos > Len(file.lines)
       \/ ppc = "except"
    /\ ppc' = "returned"
    /\ parsed' = DataFrame(Unline(data), {"timestamp", "power"})
    /\ UNCHANGED <<file, base_date, pos, data, rvars>>

ParseNext ==
    \/ OpenFile
    \/ OpenFails
    \/ SkipLine
    \/ AppendRow
    \/ LineRaises
    \/ ParseReturn

SpecParse == ParseInit /\ [][ParseNext]_vars

\* the stepwise loop returns what the operator computes
ParseAgrees ==
    ppc = "returned" => parsed = parse_measurement_file(file, base_date, "power")

\* ------------------------------------------------------------------ results
Init ==
    /\ ParserIdle
    /\ form \in Forms
    /\ disk \in Disks
    /\ ResultsIdle("request")

\* a date string strptime cannot read: the handler returns the error text
DatesRejected ==
    /\ pc = "request"
    /\ ~form.start.ok \/ ~form.end.ok
    /\ pc' = "rejected"
    /\ UNCHANGED <<pvars, form, disk, start_date, end_date, df, heap, spec_sim_df,
                   total_spec_production, totals, opened, nasa_calls, returned, prev>>

\* start_date at 00:00:00, end_date at 23:59:59
DatesParsed ==
    /\ pc = "request"
    /\ form.start.ok /\ form.end.ok
    /\ start_date' = DateTime(form.start.date, 0, 0, 0)
    /\ end_date' = DateTime(form.end.date, 23, 59, 59)
    /\ pc' = "fetch_data"
    /\ UNCHANGED <<pvars, form, disk, df, heap, spec_sim_df, total_spec_production,
                   totals, opened, nasa_calls, returned, prev>>

\* sunny_data = fetcher.fetch_data(start_date, end_date)
FetchData ==
    /\ pc = "fetch_data"
    /\ LET sunny_data == fetch_data(disk, start_date, end_date)
       IN  /\ heap' = [heap EXCEPT !.sunny = sunny_data]
           /\ returned' = [returned EXCEPT !.sunny = sunny_data]
    /\ df' = ParseChannels(disk, start_date)
    /\ opened' = {"power", "voltage", "current"}
    /\ pc' = "fetch_nasa"
    /\ UNCHANGED <<pvars, form, disk, start_date, end_date, spec_sim_df,
                   total_spec_production, totals, nasa_calls, prev>>

\* simulate_pv_production(nasa_data): the object nasa_data itself
SimulationTargetAliased == "nasa"

\* the object simulate_pv_production works on: nasa_data.copy(), a new object
SimulationTarget == "spec"

\* nasa_data is None or empty: no simulation
NasaUnavailable ==
    /\ pc = "fetch_nasa"
    /\ \E outcome \in NasaOutcomes(start_date) :
        /\ outcome.none \/ Empty(outcome)
        /\ heap' = [heap EXCEPT !.nasa = outcome]
        /\ returned' = [returned EXCEPT !.nasa = outcome]
    /\ nasa_calls' = nasa_calls + 1
    /\ total_spec_production' = NoValue
    /\ pc' = "economics"
    /\ UNCHANGED <<pvars, form, disk, start_date, end_date, df, spec_sim_df, totals,
                   opened, prev>>

\* nasa_data has rows: spec_sim_df = simulate_pv_production(nasa_data.copy())
NasaSimulated ==
    /\ pc = "fetch_nasa"
    /\ \E outcome \in NasaOutcomes(start_date) :
        /\ ~outcome.none /\ ~Empty(outcome)
        /\ LET h1 == [heap EXCEPT !.nasa = outcome]
               h2 == [h1 EXCEPT ![SimulationTarget] = h1.nasa]
               h3 == [h2 EXCEPT ![SimulationTarget] =
                                    simulate_pv_production(h2[SimulationTarget])]
           IN  /\ heap' = h3
               /\ total_spec_production' =
                    Some(SumOf([i \in 1..Len(h3[SimulationTarget].rows) |->
                                   h3[SimulationTarget].rows[i].total_production]))
        /\ returned' = [returned EXCEPT !.nasa = outcome]
    /\ spec_sim_df' = SimulationTarget
    /\ nasa_calls' = nasa_calls + 1
    /\ pc' = "economics"
    /\ UNCHANGED <<pvars, form, disk, start_date, end_date, df, totals, opened, prev>>

\* the modeled series in the place of a measured series without rows
AnalyzerInputGapFilled(h) ==
    IF Empty(h.sunny) /\ ~h.spec.none
    THEN [none |-> FALSE, columns |-> MergedColumns,
          rows |-> [i \in 1..Len(h.spec.rows) |->
             [timestamp |-> h.spec.rows[i].timestamp,
              power |-> NaN, grid_voltage |-> NaN, grid_current |-> NaN,
              production_kWh |-> h.spec.rows[i].total_production,
              grid_power_calculated |-> NaN]]]
    ELSE h.sunny

\* the frame results gives to EconomicAnalyzer: sunny_data
AnalyzerInput(h) == h.sunny

\* EconomicAnalyzer(sunny_data) raises KeyError: the handler ends in the error
AnalyzerKeyError ==
    /\ pc = "economics"
    /\ AnalyzerRaises(AnalyzerInput(heap))
    /\ pc' = "error"
    /\ UNCHANGED <<pvars, form, disk, start_date, end_date, df, heap, spec_sim_df,
                   total_spec_production, totals, opened, nasa_calls, returned, prev>>

\* the analyzer, the totals, the charts and the summary: the page is rendered
EconomicsRendered ==
    /\ pc = "economics"
    /\ ~AnalyzerRaises(AnalyzerInput(heap))
    /\ LET a == AnalyzerInit(AnalyzerInput(heap))
       IN  IF Empty(AnalyzerInput(heap))
           THEN /\ heap' = [heap EXCEPT !.analyzer = a]
                /\ totals' = NoTotals
           ELSE /\ heap' = [heap EXCEPT !.analyzer = calculate_economics(a)]
                /\ totals' = EconomicTotals(calculate_economics(a))
    /\ pc' = "rendered"
    /\ UNCHANGED <<pvars, form, disk, start_date, end_date, df, spec_sim_df,
                   total_spec_production, opened, nasa_calls, returned, prev>>

\* the same form is posted again, the files as they were
NextRequest ==
    /\ pc \in {"rendered", "error"}
    /\ prev' = [set |-> TRUE, status |-> pc, totals |-> totals,
                economics |-> heap.analyzer.rows,
                simulated |-> ~total_spec_production.none]
    /\ pc' = "request"
    /\ start_date' = DateTime(0, 0, 0, 0)
    /\ end_date' = DateTime(0, 0, 0, 0)
    /\ df' = [power |-> NoFrame, voltage |-> NoFrame, current |-> NoFrame]
    /\ heap' = NoHeap
    /\ spec_sim_df' = "unset"
    /\ total_spec_production' = NoValue
    /\ totals' = NoTotals
    /\ opened' = {}
    /\ nasa_calls' = 0
    /\ returned' = [sunny |-> None, nasa |-> None]
    /\ UNCHANGED <<pvars, form, disk>>

Next ==
    \/ DatesRejected
    \/ DatesParsed
    \/ FetchData
    \/ NasaUnavailable
    \/ NasaSimulated
    \/ AnalyzerKeyError
    \/ EconomicsRendered
    \/ NextRequest

Spec == Init /\ [][Next]_vars

\* ================================================================== claims
Fetched == pc \in {"fetch_nasa", "economics", "rendered", "error"}

Finished == pc \in {"rendered", "error"}

\* the days the window selects, both ends included
WindowDays == end_date.date - start_date.date + 1

\* C1: a window of parseable dates that is not 7 days long is rejected before
\* any telemetry file is opened and before fetch_nasa_data is called.
C1_OtherWindowsRejected ==
    (pc \notin {"idle", "request", "rejected"} /\ WindowDays # 7)
        => (opened = {} /\ nasa_calls = 0)

MissingTelemetry == Empty(df.power) \/ Empty(df.voltage) \/ Empty(df.current)

\* C2: with a channel file absent or empty, or the irradiance fetch failed,
\* the handler still ends in a rendered report (empty series, zero totals);
\* no stage after fetch_data ends in an unhandled error.
C2_MissingDataStillRenders ==
    (Finished /\ (MissingTelemetry \/ returned.nasa.none))
        => /\ pc = "rendered"
           /\ MissingTelemetry => (totals = NoTotals /\ Empty(heap.analyzer))

\* the row a valid sample line stands for, read from the sample itself
ExpectedRow(id, base) ==
    [timestamp |-> [date |-> base + Lines[id].day - 1,
                    secs |-> Lines[id].hour * 3600 + Lines[id].minute * 60],
     value |-> Lines[id].value]

RECURSIVE ExpectedRows(_, _)
ExpectedRows(ids, base) ==
    IF ids = <<>> THEN <<>>
    ELSE (IF Lines[Head(ids)].form = "valid"
          THEN <<ExpectedRow(Head(ids), base)>> ELSE <<>>)
         \o ExpectedRows(Tail(ids), base)

\* C3: a line with a malformed time or day token contributes no row and the
\* parse goes on: the result is exactly the rows of the well-formed lines.
C3_MalformedLinesSkipped ==
    ppc = "returned" => parsed.rows = ExpectedRows(file.lines, base_date)

\* C4: a file that cannot be opened, and a file whose lines are all blank or
\* malformed, give an empty series (and no exception leaves the parser).
C4_UnusableFileEmptySeries ==
    (/\ ppc = "returned"
     /\ \/ ~file.exists
        \/ \A i \in 1..Len(file.lines) :
              Lines[file.lines[i]].form \in {"blank", "malformed"})
        => Empty(parsed)

\* C5: every timestamp of fetch_data's output occurs in the three parsed
\* channel series and lies in [start_date, end_date].
C5_OutputInJoinAndWindow ==
    Fetched =>
        \A i \in 1..Len(heap.sunny.rows) :
            LET t == heap.sunny.rows[i].timestamp
            IN  /\ \E j \in 1..Len(df.power.rows) : df.power.rows[j].timestamp = t
                /\ \E j \in 1..Len(df.voltage.rows) : df.voltage.rows[j].timestamp = t
                /\ \E j \in 1..Len(df.current.rows) : df.current.rows[j].timestamp = t
                /\ TsLE(start_date, t)
                /\ TsLE(t, end_date)

C5_Witness ==
    /\ pc = "fetch_nasa"
    /\ Len(heap.sunny.rows) = 1
    /\ heap.sunny.rows[1].timestamp = DateTime(D0, 8, 15, 0)

\* C6: a reading with an empty or unparseable value on a line with valid time
\* and day tokens is kept as a row whose value is absent, and the energy
\* fetch_data derives from an absent power is absent.
C6_AbsentValueKept ==
    /\ ppc = "returned" =>
          \A i \in 1..Len(file.lines) :
              (Lines[file.lines[i]].form = "valid" /\ Lines[file.lines[i]].value.nan)
                  => \E j \in 1..Len(data) : data[j].line = i /\ data[j].value.nan
    /\ \A i \in 1..Len(heap.sunny.rows) :
          heap.sunny.rows[i].power.nan => heap.sunny.rows[i].production_kWh.nan

\* C7: production_kWh >= 0 for every record of fetch_data whose power is
\* >= 0, and total_production >= 0 for every record of
\* simulate_pv_production, whatever the irradiance.
C7_EnergyNonNegative ==
    /\ \A i \in 1..Len(heap.sunny.rows) :
          DecGE0(heap.sunny.rows[i].power) => DecGE0(heap.sunny.rows[i].production_kWh)
    /\ spec_sim_df # "unset" =>
          \A i \in 1..Len(heap[spec_sim_df].rows) :
              DecGE0(heap[spec_sim_df].rows[i].total_production)

C7_Witness ==
    /\ spec_sim_df # "unset"
    /\ \E i \in 1..Len(returned.nasa.rows) :
          /\ DecLT0(returned.nasa.rows[i].irradiance)
          /\ heap[spec_sim_df].rows[i].total_production.m = 0
    /\ \E i \in 1..Len(heap.sunny.rows) :
          /\ heap.sunny.rows[i].power = Dec(25, 1)
          /\ heap.sunny.rows[i].production_kWh.m > 0

\* C8: the timestamp emitted for a valid line with time HH:MM and integer day
\* token d is base_date + (d - 1) days at HH:MM, whatever the day of the month
\* of base_date and whatever the other lines; every valid line the loop has
\* passed has its row.
C8_OffsetPolicy ==
    /\ \A j \in 1..Len(data) :
          LET s == Lines[file.lines[data[j].line]]
          IN  s.form = "valid" =>
                  data[j].timestamp = [date |-> base_date + s.day - 1,
                                       secs |-> s.hour * 3600 + s.minute * 60]
    /\ \A i \in 1..(pos - 1) :
          Lines[file.lines[i]].form = "valid" => \E j \in 1..Len(data) : data[j].line = i

\* base date 2025-01-31: day tokens 2 and 3 are 2025-02-01 and 2025-02-02
C8_Witness ==
    /\ ppc = "returned"
    /\ base_date = D0 + 25
    /\ Len(data) = 2
    /\ data[1].timestamp = DateTime(D0 + 26, 12, 0, 0)
    /\ data[2].timestamp = DateTime(D0 + 27, 10, 15, 0)

\* C9: two requests with the same telemetry end alike in their economics
\* (status, total_auto, total_feed_in, the per-record economics), whatever
\* the outcomes of the irradiance fetch and the simulation.
C9_EconomicsIgnoreModel ==
    (prev.set /\ Finished)
        => /\ prev.status = pc
           /\ prev.totals = totals
           /\ prev.economics = heap.analyzer.rows

C9_Witness ==
    /\ prev.set
    /\ pc = "rendered"
    /\ prev.simulated # ~total_spec_production.none
    /\ Len(heap.analyzer.rows) >= 1
    /\ totals.total_auto.m > 0

\* C10: after the simulation and the analyzer, the frames fetch_nasa_data and
\* fetch_data returned are as they were returned.
C10_EarlierSeriesUnchanged ==
    pc \in {"economics", "rendered", "error"}
        => (heap.nasa = returned.nasa /\ heap.sunny = returned.sunny)

C10_Witness ==
    /\ pc = "rendered"
    /\ \E i \in 1..Len(heap.nasa.rows) : DecLT0(heap.nasa.rows[i].irradiance)
    /\ "total_production" \in heap.spec.columns
    /\ "total_production" \notin heap.nasa.columns
    /\ "net_feed_in" \in heap.analyzer.columns
    /\ "net_feed_in" \notin heap.sunny.columns

====
